---- MODULE Spec2Model ----
(***************************************************************************)
(* The crawl engine of src/src/crawler/core.py as a state machine.         *)
(*                                                                         *)
(* URLs are modelled by their components.  A path or a query is a sequence *)
(* of one-character strings, so that the prefix and suffix tests of the    *)
(* code are computed on characters; a scheme, a host and a port are short  *)
(* strings.  An absent component is "" (or <<>> for a path or a query).    *)
(* Python's None is <<>> and a present value v is <<v>>.                   *)
(***************************************************************************)
EXTENDS Integers, Sequences, FiniteSets, TLC

None == <<>>
Some(x) == <<x>>

(***************************************************************************)
(* Bounds of the model.                                                    *)
(***************************************************************************)
\* max_pages ranges over 0..MaxPagesCap
MaxPagesCap == 3
\* a robots.txt parsed on its own has at most MaxRobotsLines lines
MaxRobotsLines == 4
\* the two crawl variants are run side by side with max_pages in 0..MaxVariantPages
MaxVariantPages == 2

(***************************************************************************)
(* Strings.                                                                *)
(***************************************************************************)
\* str.lower() on the strings and characters the model uses
Lower(c) ==
    CASE c = "HTTP" -> "http"
      [] c = "HTTPS" -> "https"
      [] c = "E.com" -> "e.com"
      [] c = "D" -> "d"
      [] c = "J" -> "j"
      [] c = "P" -> "p"
      [] c = "G" -> "g"
      [] c = "Text/HTML; charset=UTF-8" -> "text/html; charset=utf-8"
      [] c = "Text/Plain" -> "text/plain"
      [] c = "User-agent" -> "user-agent"
      [] c = "Disallow" -> "disallow"
      [] c = "Allow" -> "allow"
      [] OTHER -> c

LowerSeq(s) == [i \in 1..Len(s) |-> Lower(s[i])]

\* str.startswith / str.endswith on character sequences
StartsWith(s, pre) == Len(pre) <= Len(s) /\ SubSeq(s, 1, Len(pre)) = pre
EndsWith(s, suf) == Len(suf) <= Len(s) /\ SubSeq(s, Len(s) - Len(suf) + 1, Len(s)) = suf

SKIP_EXTENSIONS ==
    { <<".", "j", "p", "g">>, <<".", "j", "p", "e", "g">>, <<".", "p", "n", "g">>,
      <<".", "g", "i", "f">>, <<".", "w", "e", "b", "p">>, <<".", "s", "v", "g">>,
      <<".", "p", "d", "f">>, <<".", "z", "i", "p">>, <<".", "r", "a", "r">>,
      <<".", "7", "z">>,
      <<".", "m", "p", "4">>, <<".", "m", "p", "3">>, <<".", "w", "a", "v">>,
      <<".", "w", "e", "b", "m">>,
      <<".", "c", "s", "s">>, <<".", "j", "s">>, <<".", "m", "a", "p">>,
      <<".", "i", "c", "o">>,
      <<".", "w", "o", "f", "f">>, <<".", "w", "o", "f", "f", "2">>,
      <<".", "t", "t", "f">>, <<".", "e", "o", "t">> }

(***************************************************************************)
(* URLs.                                                                   *)
(***************************************************************************)
Url(scheme, host, port, path, query, frag) ==
    [scheme |-> scheme, host |-> host, port |-> port,
     path |-> path, query |-> query, frag |-> frag]

\* the empty string as a URL
EmptyUrl == Url("", "", "", <<>>, <<>>, "")

\* the port strings that are decimal numbers, and their values
PortDigits == {"0", "80", "443", "8080"}
PortNumber(p) ==
    CASE p = "0" -> 0 [] p = "80" -> 80 [] p = "443" -> 443 [] p = "8080" -> 8080

\* the directory part of a base path: everything up to its last "/"
RECURSIVE DirOf(_)
DirOf(path) ==
    IF path = <<>> THEN <<"/">>
    ELSE IF path[Len(path)] = "/" THEN path
    ELSE DirOf(SubSeq(path, 1, Len(path) - 1))

\* urllib.parse.urljoin(base, url), for references without dot segments
urljoin(base, url) ==
    IF url.scheme # "" /\ Lower(url.scheme) # Lower(base.scheme) THEN url
    ELSE IF url.host # "" \/ url.port # "" THEN [url EXCEPT !.scheme = Lower(base.scheme)]
    ELSE IF url.path = <<>>
         THEN [base EXCEPT !.query = IF url.query # <<>> THEN url.query ELSE base.query,
                           !.frag = url.frag]
    ELSE IF Head(url.path) = "/"
         THEN [base EXCEPT !.path = url.path, !.query = url.query, !.frag = url.frag]
    ELSE [base EXCEPT !.path = DirOf(base.path) \o url.path,
                      !.query = url.query, !.frag = url.frag]

\* urldefrag(...)[0]
urldefrag(url) == [url EXCEPT !.frag = ""]

\* a faulty variant of normalize_rejects: the path is compared with the
\* extensions without being lower-cased
normalize_rejects_caseful(url, base) ==
    LET parsed == urldefrag(urljoin(base, url))
    IN \/ url = EmptyUrl
       \/ Lower(parsed.scheme) \notin {"http", "https"}
       \/ \E ext \in SKIP_EXTENSIONS : EndsWith(parsed.path, ext)

\* parsed.hostname or "": the host in lower case, the brackets of an IPv6
\* literal removed
hostname(parsed) == IF parsed.host = "[::1]" THEN "::1" ELSE Lower(parsed.host)

\* the part of normalize_url before the port is read: TRUE when it returns None
normalize_rejects(url, base) ==
    \/ url = EmptyUrl
    \/ \E parsed \in {urldefrag(urljoin(base, url))} :
         \/ Lower(parsed.scheme) \notin {"http", "https"}
         \/ \E path_lower \in {LowerSeq(parsed.path)} :
              \E ext \in SKIP_EXTENSIONS : EndsWith(path_lower, ext)

\* reading parsed.port raises ValueError when the port is not a number
normalize_raises(url, base) ==
    LET parsed == urldefrag(urljoin(base, url))
    IN /\ ~normalize_rejects(url, base)
       /\ parsed.port # ""
       /\ parsed.port \notin PortDigits

\* normalize_url(url, base): None, or Some(canonical URL); defined when it does not raise
normalize_url(url, base) ==
    IF normalize_rejects(url, base) THEN None
    ELSE
      LET parsed == urldefrag(urljoin(base, url))
          scheme == Lower(parsed.scheme)
          host == Lower(hostname(parsed))
          port == IF parsed.port = "" THEN None ELSE Some(PortNumber(parsed.port))
          netport ==
              IF (scheme = "http" /\ port = Some(80)) \/ (scheme = "https" /\ port = Some(443))
              THEN ""
              ELSE IF port # None /\ port # Some(0) THEN parsed.port
              ELSE ""
      IN Some(Url(scheme, host, netport,
                  IF parsed.path = <<>> THEN <<"/">> ELSE parsed.path,
                  parsed.query, ""))

\* urlparse of the string of a canonical URL.  Its components parse back to
\* themselves, except for the netloc of an IPv6 host, which normalize_url
\* writes without brackets: "::1" and "::1:8080" split at their first colon
\* into an empty host and the ports ":1" and ":1:8080"
urlparse(c) ==
    IF c.host = "::1"
    THEN [c EXCEPT !.host = "",
                   !.port = CASE c.port = "" -> ":1"
                              [] c.port = "80" -> ":1:80"
                              [] c.port = "443" -> ":1:443"
                              [] c.port = "8080" -> ":1:8080"]
    ELSE c

\* (parsed.scheme, parsed.netloc) of a canonical URL
OriginOf(url) == <<url.scheme, url.host, url.port>>

is_local(url, start_origin) == OriginOf(url) = start_origin

\* a faulty variant of matches_path_prefix: an empty prefix matches no URL
matches_path_prefix_nonempty(url, path_prefix) ==
    IF path_prefix = None THEN TRUE
    ELSE path_prefix[1] # <<>> /\ StartsWith(url.path, path_prefix[1])

\* path_prefix is None or Some(prefix)
matches_path_prefix(url, path_prefix) ==
    IF path_prefix = None THEN TRUE
    ELSE StartsWith(url.path, path_prefix[1])

(***************************************************************************)
(* Results and statistics.                                                 *)
(***************************************************************************)
EmptyMap == [x \in {} |-> 0]

\* dict.setdefault(k, v)
SetDefault(m, k, v) == IF k \in DOMAIN m THEN m ELSE m @@ (k :> v)

\* PageResult(url=url)
PageResult(url) ==
    [url |-> url, scanned_at |-> None, status_code |-> None, title |-> None,
     h1_present |-> None, h1_contents |-> None, linked_from |-> <<>>]

\* CrawlStats()
CrawlStats ==
    [pages_crawled |-> 0, pages_without_title |-> 0, pages_without_h1 |-> 0,
     error_counts |-> EmptyMap]

\* str(status_code)
StatusStr(code) ==
    CASE code = 200 -> "200" [] code = 404 -> "404" [] code = 500 -> "500"

\* defaultdict(int)[k] += 1
Incr(m, k) == IF k \in DOMAIN m THEN [m EXCEPT ![k] = @ + 1] ELSE m @@ (k :> 1)

\* a faulty variant of record_error: a missing status code is not counted
record_error_statusonly(st, status_code) ==
    IF status_code # None /\ status_code[1] >= 400
    THEN [st EXCEPT !.error_counts = Incr(@, StatusStr(status_code[1]))]
    ELSE st

\* CrawlStats.record_error(status_code), status_code None or Some(code)
record_error(st, status_code) ==
    IF status_code = None
    THEN [st EXCEPT !.error_counts = Incr(@, "connection_error")]
    ELSE IF status_code[1] >= 400
         THEN [st EXCEPT !.error_counts = Incr(@, StatusStr(status_code[1]))]
         ELSE st

\* CrawlStats.record_page(title, h1_present): title None or Some(text), h1_present a boolean
record_page(st, title, h1_present) ==
    LET a == IF title = None \/ title = Some("")
             THEN [st EXCEPT !.pages_without_title = @ + 1] ELSE st
    IN IF ~h1_present THEN [a EXCEPT !.pages_without_h1 = @ + 1] ELSE a

\* utc_now_iso(): the time of the call, abstracted to one value
utc_now_iso == "now"

(***************************************************************************)
(* Content types.                                                          *)
(***************************************************************************)
\* (resp.headers.get("content-type") or "").lower()
content_type_lower(header) == IF header = None THEN "" ELSE Lower(header[1])

\* "text/html" in content_type
ContainsTextHtml(s) == s \in {"text/html", "text/html; charset=utf-8"}

\* "text" in content_type
ContainsText(s) == s \in {"text/html", "text/html; charset=utf-8", "text/plain"}

(***************************************************************************)
(* robots.txt.                                                             *)
(***************************************************************************)
\* a line of robots.txt: its field name as written, and its value
RobotsLine(fld, agent, path) == [field |-> fld, agent |-> agent, path |-> path]

\* a faulty variant of ParseRobots: a user-agent line for another agent does
\* not clear the flag
RECURSIVE ParseRobots_sticky(_, _, _)
ParseRobots_sticky(lines, ua_star, rules) ==
    IF lines = <<>> THEN rules
    ELSE
      LET line == Head(lines)
          rest == Tail(lines)
      IN IF line.field = "" \/ line.field = "#" THEN ParseRobots_sticky(rest, ua_star, rules)
         ELSE IF Lower(line.field) = "user-agent"
              THEN ParseRobots_sticky(rest, ua_star \/ line.agent = "*", rules)
         ELSE IF ua_star /\ Lower(line.field) = "disallow"
              THEN ParseRobots_sticky(rest, ua_star,
                               IF line.path # <<>> THEN rules \cup {line.path} ELSE rules)
         ELSE ParseRobots_sticky(rest, ua_star, rules)

\* the loop over resp.text.splitlines()
RECURSIVE ParseRobots(_, _, _)
ParseRobots(lines, ua_star, rules) ==
    IF lines = <<>> THEN rules
    ELSE
      LET line == Head(lines)
          rest == Tail(lines)
      IN IF line.field = "" \/ line.field = "#" THEN ParseRobots(rest, ua_star, rules)
         ELSE IF Lower(line.field) = "user-agent"
              THEN ParseRobots(rest, line.agent = "*", rules)
         ELSE IF ua_star /\ Lower(line.field) = "disallow"
              THEN ParseRobots(rest, ua_star,
                               IF line.path # <<>> THEN rules \cup {line.path} ELSE rules)
         ELSE ParseRobots(rest, ua_star, rules)

\* a faulty variant of load_robots_rules: the content type is not looked at
load_robots_rules_anytype(fetch) ==
    IF fetch.error THEN {}
    ELSE IF fetch.status_code # 200 THEN {}
    ELSE ParseRobots(fetch.lines, FALSE, {})

\* _load_robots_rules, given what the robots.txt fetch produced
load_robots_rules(fetch) ==
    IF fetch.error THEN {}
    ELSE IF fetch.status_code # 200 THEN {}
    ELSE IF ~ContainsText(content_type_lower(fetch.content_type)) THEN {}
    ELSE ParseRobots(fetch.lines, FALSE, {})

\* a faulty variant of is_blocked_by_robots: the rule is tested against the
\* path the wrong way round
is_blocked_by_robots_reversed(url, disallow_rules) ==
    IF disallow_rules = {} THEN FALSE
    ELSE \E rule \in disallow_rules : StartsWith(rule, url.path)

is_blocked_by_robots(url, disallow_rules) ==
    IF disallow_rules = {} THEN FALSE
    ELSE \E rule \in disallow_rules : StartsWith(url.path, rule)

mark_skipped(res, url) ==
    LET r == SetDefault(res, url, PageResult(url))
    IN [r EXCEPT ![url].scanned_at = Some(utc_now_iso),
                 ![url].status_code = None,
                 ![url].title = None,
                 ![url].h1_present = None,
                 ![url].h1_contents = None]

(***************************************************************************)
(* Ordering of canonical URLs: Python compares the strings urlunparse      *)
(* returns, character by character.                                        *)
(***************************************************************************)
\* the characters of the model, in ASCII order
Alphabet ==
    <<".", "/", "0", "2", "3", "4", "7", "8", ":", "?", "D", "G", "J", "P",
      "a", "b", "c", "d", "e", "f", "g", "h", "i", "j", "m", "n", "o", "p",
      "r", "s", "t", "v", "w", "x", "z">>

OrdTable ==
    [c \in {Alphabet[i] : i \in 1..Len(Alphabet)} |->
        CHOOSE i \in 1..Len(Alphabet) : Alphabet[i] = c]

Ord(c) == OrdTable[c]

\* the characters of a scheme, host or port
Chars(s) ==
    CASE s = "http" -> <<"h", "t", "t", "p">>
      [] s = "https" -> <<"h", "t", "t", "p", "s">>
      [] s = "e.com" -> <<"e", ".", "c", "o", "m">>
      [] s = "o.com" -> <<"o", ".", "c", "o", "m">>
      [] s = "8080" -> <<"8", "0", "8", "0">>
      [] s = "80" -> <<"8", "0">>
      [] s = "443" -> <<"4", "4", "3">>
      [] s = "" -> <<>>

\* urlunparse((scheme, netloc, path, "", query, "")) of a canonical URL
urlunparse(u) ==
    Chars(u.scheme) \o <<":", "/", "/">> \o Chars(u.host)
      \o (IF u.port # "" THEN <<":">> \o Chars(u.port) ELSE <<>>)
      \o u.path
      \o (IF u.query # <<>> THEN <<"?">> \o u.query ELSE <<>>)

\* a < b for strings
RECURSIVE StrLess(_, _)
StrLess(a, b) ==
    IF b = <<>> THEN FALSE
    ELSE IF a = <<>> THEN TRUE
    ELSE IF Head(a) = Head(b) THEN StrLess(Tail(a), Tail(b))
    ELSE Ord(Head(a)) < Ord(Head(b))

UrlLess(a, b) == StrLess(urlunparse(a), urlunparse(b))

\* sorted(S) for a set of canonical URLs
RECURSIVE sorted(_)
sorted(S) ==
    IF S = {} THEN <<>>
    ELSE LET m == CHOOSE x \in S : \A y \in S \ {x} : UrlLess(x, y)
         IN <<m>> \o sorted(S \ {m})

(***************************************************************************)
(* The inputs of a run: the arguments of crawl, and what the network       *)
(* answers.                                                                *)
(***************************************************************************)
\* "HTTP://E.com:80/d#top", "https://e.com:443", "ftp://e.com/d", "", "http://e.com:x/d"
StartUrls ==
    { Url("HTTP", "E.com", "80", <<"/", "d">>, <<>>, "top"),
      Url("https", "e.com", "443", <<>>, <<>>, ""),
      Url("ftp", "e.com", "", <<"/", "d">>, <<>>, ""),
      EmptyUrl,
      Url("http", "e.com", "x", <<"/", "d">>, <<>>, "") }

\* None, "", "/d", "/b"
PathPrefixes == { None, Some(<<>>), Some(<<"/", "d">>), Some(<<"/", "b">>) }

\* the hrefs a page may carry
HrefA == Url("", "", "", <<"/", "d", "/", "a">>, <<>>, "")             \* "/d/a"
HrefStart == Url("HTTP", "E.com", "80", <<"/", "d">>, <<>>, "f")       \* "HTTP://E.com:80/d#f"
HrefBlog == Url("", "", "", <<"/", "b", "/", "p">>, <<>>, "")          \* "/b/p"
HrefOther == Url("http", "o.com", "", <<"/", "d", "/", "a">>, <<>>, "")  \* "http://o.com/d/a"
HrefImage == Url("", "", "", <<"/", "d", "/", "i", ".", "J", "P", "G">>, <<>>, "")  \* "/d/i.JPG"
HrefBadPort == Url("http", "e.com", "x", <<"/", "d">>, <<>>, "")       \* "http://e.com:x/d"
HrefRel == Url("", "", "", <<"a">>, <<>>, "")                          \* "a"
HrefFtp == Url("ftp", "e.com", "", <<"/", "d", "/", "a">>, <<>>, "")   \* "ftp://e.com/d/a"

\* the anchor lists extract_links may return
AnchorLists ==
    { <<>>,
      <<HrefA, HrefStart, HrefA>>,
      <<HrefBlog, HrefOther, HrefA>>,
      <<HrefImage, HrefFtp, HrefStart>>,
      <<HrefA, HrefBadPort, HrefBlog>>,
      <<HrefRel>> }

\* what parse_metadata returns: (title, bool(h1_tags), h1_texts)
NoMetadata == [title |-> None, h1_present |-> FALSE, h1_texts |-> <<>>]
FullMetadata == [title |-> Some("T"), h1_present |-> TRUE, h1_texts |-> <<"H">>]
EmptyHeadings == [title |-> None, h1_present |-> TRUE, h1_texts |-> <<>>]

Response(status, ctype, meta, hrefs) ==
    [status_code |-> status, content_type |-> ctype, title |-> meta.title,
     h1_present |-> meta.h1_present, h1_texts |-> meta.h1_texts, hrefs |-> hrefs]

\* the responses of session.get: status, content-type header, and what the
\* extractor finds in the body
HtmlResponses ==
    { Response(200, Some("Text/HTML; charset=UTF-8"), FullMetadata, a) : a \in AnchorLists }
      \cup { Response(404, Some("text/html"), NoMetadata, a) : a \in AnchorLists }
      \cup { Response(200, Some("text/html"), EmptyHeadings, <<>>) }

OtherResponses ==
    { Response(200, Some("application/json"), FullMetadata, <<HrefA>>),
      Response(404, None, NoMetadata, <<HrefA>>) }

\* the history's placeholder where there was no response
NoResponse == Response(0, None, NoMetadata, <<>>)

\* robots.txt bodies
RobotsBodies ==
    { << RobotsLine("User-agent", "*", <<>>), RobotsLine("Disallow", "", <<"/", "d", "/", "a">>) >>,
      << RobotsLine("disallow", "", <<"/", "d">>),
         RobotsLine("user-agent", "bot", <<>>), RobotsLine("disallow", "", <<"/", "d">>),
         RobotsLine("#", "", <<>>),
         RobotsLine("user-agent", "*", <<>>), RobotsLine("disallow", "", <<>>),
         RobotsLine("Allow", "", <<"/", "d">>),
         RobotsLine("disallow", "", <<"/", "b">>) >>,
      << RobotsLine("user-agent", "*", <<>>), RobotsLine("disallow", "", <<"/">>) >> }

RobotsFetch(error, status, ctype, lines) ==
    [error |-> error, status_code |-> status, content_type |-> ctype, lines |-> lines]

\* a robots.txt that disallows everything: "User-agent: *", "Disallow: /"
DisallowAll ==
    << RobotsLine("User-agent", "*", <<>>), RobotsLine("Disallow", "", <<"/">>) >>

\* what the fetch of robots.txt produces: a transport error, or a response
RobotsFetches ==
    { RobotsFetch(TRUE, 0, None, <<>>) }
      \cup { RobotsFetch(FALSE, 200, Some("Text/Plain"), b) : b \in RobotsBodies }
      \cup { RobotsFetch(FALSE, 404, Some("Text/Plain"), DisallowAll),
             RobotsFetch(FALSE, 200, Some("application/json"), DisallowAll),
             RobotsFetch(FALSE, 200, None, DisallowAll) }

(***************************************************************************)
(* The state of a run of crawl.                                            *)
(***************************************************************************)
VARIABLES
    start_url, max_pages, respect_robots, path_prefix,  \* the arguments
    pc,               \* "start", "robots", "loop", "done", "raised"
    start_url_normalized,
    results, inlinks, discovered, scanned, queue, stats, robots_disallow,
    returned,         \* the list crawl returns
    robots_fetch,     \* None, or Some(what the robots.txt fetch produced)
    history,          \* the URLs dequeued so far, in order, with their outcome
    canonical         \* what successive calls of normalize_url returned

vars ==
    <<start_url, max_pages, respect_robots, path_prefix, pc, start_url_normalized,
      results, inlinks, discovered, scanned, queue, stats, robots_disallow,
      returned, robots_fetch, history, canonical>>

args == <<start_url, max_pages, respect_robots, path_prefix>>

Init ==
    /\ start_url \in StartUrls
    /\ max_pages \in 0..MaxPagesCap
    /\ respect_robots \in BOOLEAN
    /\ path_prefix \in PathPrefixes
    /\ pc = "start"
    /\ start_url_normalized = None
    /\ results = EmptyMap
    /\ inlinks = EmptyMap
    /\ discovered = {}
    /\ scanned = {}
    /\ queue = <<>>
    /\ stats = CrawlStats
    /\ robots_disallow = {}
    /\ returned = <<>>
    /\ robots_fetch = None
    /\ history = <<>>
    /\ canonical = <<>>

\* `if path_prefix`: a prefix that is neither None nor ""
PrefixGiven == path_prefix # None /\ path_prefix # Some(<<>>)

\* the start URL passes the two checks of lines 200-209
StartAccepted ==
    /\ ~normalize_raises(start_url, start_url)
    /\ normalize_url(start_url, start_url) # None
    /\ PrefixGiven => matches_path_prefix(normalize_url(start_url, start_url)[1], path_prefix)

\* crawl raises ValueError before anything else happens
StartRejected ==
    /\ pc = "start"
    /\ ~StartAccepted
    /\ pc' = "raised"
    /\ UNCHANGED <<args, canonical, start_url_normalized, results, inlinks, discovered, scanned,
                   queue, stats, robots_disallow, returned, robots_fetch, history>>

\* a faulty variant of Start: the start URL is queued without being added to
\* the Discovered set
Start_undiscovered ==
    /\ pc = "start"
    /\ StartAccepted
    /\ LET s == normalize_url(start_url, start_url)[1]
       IN /\ start_url_normalized' = Some(s)
          /\ results' = (s :> PageResult(s))
          /\ discovered' = {}
          /\ queue' = <<s>>
    /\ inlinks' = EmptyMap
    /\ scanned' = {}
    /\ stats' = CrawlStats
    /\ pc' = "robots"
    /\ UNCHANGED <<args, canonical, robots_disallow, returned, robots_fetch, history>>

\* lines 199-227: the crawl state is set up
Start ==
    /\ pc = "start"
    /\ StartAccepted
    /\ LET s == normalize_url(start_url, start_url)[1]
       IN /\ start_url_normalized' = Some(s)
          /\ results' = (s :> PageResult(s))
          /\ discovered' = {s}
          /\ queue' = <<s>>
    /\ inlinks' = EmptyMap
    /\ scanned' = {}
    /\ stats' = CrawlStats
    /\ pc' = "robots"
    /\ UNCHANGED <<args, canonical, robots_disallow, returned, robots_fetch, history>>

start_origin == OriginOf(start_url_normalized[1])

\* line 230 with respect_robots false: no request is made
RobotsNotRequested ==
    /\ pc = "robots"
    /\ ~respect_robots
    /\ robots_disallow' = {}
    /\ pc' = "loop"
    /\ UNCHANGED <<args, canonical, start_url_normalized, results, inlinks, discovered, scanned,
                   queue, stats, returned, robots_fetch, history>>

\* line 230 with respect_robots true: robots.txt is fetched and parsed
LoadRobots ==
    /\ pc = "robots"
    /\ respect_robots
    /\ \E fetch \in RobotsFetches :
         /\ robots_fetch' = Some(fetch)
         /\ robots_disallow' = load_robots_rules(fetch)
    /\ pc' = "loop"
    /\ UNCHANGED <<args, canonical, start_url_normalized, results, inlinks, discovered, scanned,
                   queue, stats, returned, history>>

(***************************************************************************)
(* The crawl loop, lines 239-320.  One action is one iteration.            *)
(***************************************************************************)
Responses == HtmlResponses \cup OtherResponses

\* a faulty variant of LoopCondition: <= in place of <
LoopCondition_inclusive == queue # <<>> /\ stats.pages_crawled <= max_pages

\* the loop condition of line 239
LoopCondition == queue # <<>> /\ stats.pages_crawled < max_pages

\* an entry of the history: the URL dequeued, what became of it ("rescanned",
\* "skipped", "error" or "response"), and the response if there was one
Entry(url, outcome, resp) == [url |-> url, outcome |-> outcome, resp |-> resp]

\* the frontier and graph state the link loop works on
LinkState(res, inl, disc, q) == [results |-> res, inlinks |-> inl, discovered |-> disc, queue |-> q]

\* inlinks[target].add(url) on a defaultdict(set)
AddInlink(inl, target, url) ==
    IF target \in DOMAIN inl THEN [inl EXCEPT ![target] = @ \cup {url}]
    ELSE inl @@ (target :> {url})

\* a faulty variant of discover_link: the target is enqueued even when it was
\* discovered before
discover_link_requeue(c, url, href) ==
    LET target == normalize_url(href, url)
    IN IF target = None \/ ~is_local(target[1], start_origin) THEN c
       ELSE IF ~matches_path_prefix(target[1], path_prefix) THEN c
       ELSE LinkState(SetDefault(c.results, target[1], PageResult(target[1])),
                      AddInlink(c.inlinks, target[1], url),
                      c.discovered \cup {target[1]},
                      Append(c.queue, target[1]))

\* a faulty variant of discover_link: no placeholder record is created for the target
discover_link_norecord(c, url, href) ==
    LET target == normalize_url(href, url)
    IN IF target = None \/ ~is_local(target[1], start_origin) THEN c
       ELSE IF ~matches_path_prefix(target[1], path_prefix) THEN c
       ELSE LinkState(c.results,
                      AddInlink(c.inlinks, target[1], url),
                      c.discovered \cup {target[1]},
                      IF target[1] \in c.discovered THEN c.queue
                      ELSE Append(c.queue, target[1]))

\* a faulty variant of discover_link: the backlink is recorded only for a target
\* that is new
discover_link_newonly(c, url, href) ==
    LET target == normalize_url(href, url)
    IN IF target = None \/ ~is_local(target[1], start_origin) THEN c
       ELSE IF ~matches_path_prefix(target[1], path_prefix) THEN c
       ELSE LinkState(SetDefault(c.results, target[1], PageResult(target[1])),
                      IF target[1] \in c.discovered THEN c.inlinks
                      ELSE AddInlink(c.inlinks, target[1], url),
                      c.discovered \cup {target[1]},
                      IF target[1] \in c.discovered THEN c.queue
                      ELSE Append(c.queue, target[1]))

\* a faulty variant of discover_link: the path prefix filter is left out
discover_link_noprefix(c, url, href) ==
    LET target == normalize_url(href, url)
    IN IF target = None \/ ~is_local(target[1], start_origin) THEN c
       ELSE LinkState(SetDefault(c.results, target[1], PageResult(target[1])),
                      AddInlink(c.inlinks, target[1], url),
                      c.discovered \cup {target[1]},
                      IF target[1] \in c.discovered THEN c.queue
                      ELSE Append(c.queue, target[1]))

\* a faulty variant of discover_link: a new target is put at the front of the queue
discover_link_lifo(c, url, href) ==
    LET target == normalize_url(href, url)
    IN IF target = None \/ ~is_local(target[1], start_origin) THEN c
       ELSE IF ~matches_path_prefix(target[1], path_prefix) THEN c
       ELSE LinkState(SetDefault(c.results, target[1], PageResult(target[1])),
                      AddInlink(c.inlinks, target[1], url),
                      c.discovered \cup {target[1]},
                      IF target[1] \in c.discovered THEN c.queue
                      ELSE <<target[1]>> \o c.queue)

\* a faulty variant of discover_link: the target's record is replaced by a
\* fresh placeholder instead of being kept when it exists
discover_link_overwrite(c, url, href) ==
    LET target == normalize_url(href, url)
    IN IF target = None \/ ~is_local(target[1], start_origin) THEN c
       ELSE IF ~matches_path_prefix(target[1], path_prefix) THEN c
       ELSE LinkState([u \in DOMAIN c.results \cup {target[1]} |->
                         IF u = target[1] THEN PageResult(u) ELSE c.results[u]],
                      AddInlink(c.inlinks, target[1], url),
                      c.discovered \cup {target[1]},
                      IF target[1] \in c.discovered THEN c.queue
                      ELSE Append(c.queue, target[1]))

\* a faulty variant of discover_link: the backlink edge is recorded the wrong
\* way round, the target as a source of the processed page
discover_link_swapped(c, url, href) ==
    LET target == normalize_url(href, url)
    IN IF target = None \/ ~is_local(target[1], start_origin) THEN c
       ELSE IF ~matches_path_prefix(target[1], path_prefix) THEN c
       ELSE LinkState(SetDefault(c.results, target[1], PageResult(target[1])),
                      AddInlink(c.inlinks, url, target[1]),
                      c.discovered \cup {target[1]},
                      IF target[1] \in c.discovered THEN c.queue
                      ELSE Append(c.queue, target[1]))

\* lines 292-306: one href of the page at url
discover_link(c, url, href) ==
    LET target == normalize_url(href, url)
    IN IF target = None \/ ~is_local(target[1], start_origin) THEN c
       ELSE IF ~matches_path_prefix(target[1], path_prefix) THEN c
       ELSE LinkState(SetDefault(c.results, target[1], PageResult(target[1])),
                      AddInlink(c.inlinks, target[1], url),
                      c.discovered \cup {target[1]},
                      IF target[1] \in c.discovered THEN c.queue
                      ELSE Append(c.queue, target[1]))

\* lines 291-306: the hrefs of the page at url, in order
RECURSIVE discover_links(_, _, _)
discover_links(c, url, hrefs) ==
    IF hrefs = <<>> THEN c
    ELSE discover_links(discover_link(c, url, Head(hrefs)), url, Tail(hrefs))

\* the hrefs before the first one on which normalize_url raises (all of them if none does)
RECURSIVE BeforeRaise(_, _)
BeforeRaise(url, hrefs) ==
    IF hrefs = <<>> \/ normalize_raises(Head(hrefs), url) THEN <<>>
    ELSE <<Head(hrefs)>> \o BeforeRaise(url, Tail(hrefs))

SomeRaises(url, hrefs) == \E i \in 1..Len(hrefs) : normalize_raises(hrefs[i], url)

\* a faulty variant of IsHtml: every response is taken to be HTML
IsHtml_anytype(resp) == TRUE

\* lines 273-274: the lower-cased content-type contains "text/html"
IsHtml(resp) == ContainsTextHtml(content_type_lower(resp.content_type))

\* a faulty variant of with_status: the scan time is not recorded
with_status_unstamped(res, url, resp) ==
    LET r == SetDefault(res, url, PageResult(url))
    IN [r EXCEPT ![url].status_code = Some(resp.status_code)]

\* lines 258-259 and 264: the record of url once a response has arrived
with_status(res, url, resp) ==
    LET r == SetDefault(res, url, PageResult(url))
    IN [r EXCEPT ![url].scanned_at = Some(utc_now_iso),
                 ![url].status_code = Some(resp.status_code)]

\* a faulty variant of count_response: an error status is not counted
count_response_noerror(st, resp) ==
    [st EXCEPT !.pages_crawled = @ + 1]

\* lines 266-270: processed-count and error statistics of a response
count_response(st, resp) ==
    LET a == [st EXCEPT !.pages_crawled = @ + 1]
    IN IF resp.status_code >= 400 THEN record_error(a, Some(resp.status_code)) ELSE a

\* lines 284-288: the metadata of an HTML page
with_metadata(res, url, resp) ==
    [res EXCEPT ![url].title = resp.title,
                ![url].h1_present = Some(resp.h1_present),
                ![url].h1_contents = Some(resp.h1_texts)]

\* lines 242-243: the dequeued URL was scanned before; the iteration does nothing else
ContinueScanned ==
    /\ queue' = Tail(queue)
    /\ history' = Append(history, Entry(Head(queue), "rescanned", NoResponse))
    /\ UNCHANGED <<args, canonical, pc, start_url_normalized, results, inlinks, discovered, scanned,
                   stats, robots_disallow, returned, robots_fetch>>

\* a faulty variant of RobotsSkip: the skip is not counted as a processed page
RobotsSkip_uncounted ==
    LET url == Head(queue)
    IN /\ is_blocked_by_robots(url, robots_disallow)
       /\ scanned' = scanned \cup {url}
       /\ results' = mark_skipped(results, url)
       /\ queue' = Tail(queue)
       /\ history' = Append(history, Entry(url, "skipped", NoResponse))
       /\ UNCHANGED <<args, canonical, pc, start_url_normalized, inlinks, discovered, stats,
                      robots_disallow, returned, robots_fetch>>

\* lines 246-252: the dequeued URL is blocked by robots.txt
RobotsSkip ==
    LET url == Head(queue)
    IN /\ is_blocked_by_robots(url, robots_disallow)
       /\ scanned' = scanned \cup {url}
       /\ results' = mark_skipped(results, url)
       /\ stats' = [stats EXCEPT !.pages_crawled = @ + 1]
       /\ queue' = Tail(queue)
       /\ history' = Append(history, Entry(url, "skipped", NoResponse))
       /\ UNCHANGED <<args, canonical, pc, start_url_normalized, inlinks, discovered,
                      robots_disallow, returned, robots_fetch>>

\* a faulty variant of FetchError: the failed fetch is not counted as processed
FetchError_uncounted ==
    LET url == Head(queue)
        r == SetDefault(results, url, PageResult(url))
    IN /\ ~is_blocked_by_robots(url, robots_disallow)
       /\ results' = [r EXCEPT ![url].scanned_at = Some(utc_now_iso),
                               ![url].status_code = None,
                               ![url].title = None,
                               ![url].h1_present = None,
                               ![url].h1_contents = None]
       /\ stats' = record_error(stats, None)
       /\ scanned' = scanned \cup {url}
       /\ queue' = Tail(queue)
       /\ history' = Append(history, Entry(url, "error", NoResponse))
       /\ UNCHANGED <<args, canonical, pc, start_url_normalized, inlinks, discovered,
                      robots_disallow, returned, robots_fetch>>

\* lines 311-320: session.get raises a RequestException
FetchError ==
    LET url == Head(queue)
        r == SetDefault(results, url, PageResult(url))
    IN /\ ~is_blocked_by_robots(url, robots_disallow)
       /\ results' = [r EXCEPT ![url].scanned_at = Some(utc_now_iso),
                               ![url].status_code = None,
                               ![url].title = None,
                               ![url].h1_present = None,
                               ![url].h1_contents = None]
       /\ stats' = [record_error(stats, None) EXCEPT !.pages_crawled = @ + 1]
       /\ scanned' = scanned \cup {url}
       /\ queue' = Tail(queue)
       /\ history' = Append(history, Entry(url, "error", NoResponse))
       /\ UNCHANGED <<args, canonical, pc, start_url_normalized, inlinks, discovered,
                      robots_disallow, returned, robots_fetch>>

\* a faulty variant of FetchOther: the page is not passed to record_page
FetchOther_uncounted ==
    LET url == Head(queue)
    IN /\ ~is_blocked_by_robots(url, robots_disallow)
       /\ \E resp \in Responses :
            /\ ~IsHtml(resp)
            /\ results' = [with_status(results, url, resp) EXCEPT
                             ![url].title = None,
                             ![url].h1_present = Some(FALSE),
                             ![url].h1_contents = Some(<<>>)]
            /\ stats' = count_response(stats, resp)
            /\ history' = Append(history, Entry(url, "response", resp))
       /\ scanned' = scanned \cup {url}
       /\ queue' = Tail(queue)
       /\ UNCHANGED <<args, canonical, pc, start_url_normalized, inlinks, discovered,
                      robots_disallow, returned, robots_fetch>>

\* lines 263-281: a response that is not HTML
FetchOther ==
    LET url == Head(queue)
    IN /\ ~is_blocked_by_robots(url, robots_disallow)
       /\ \E resp \in Responses :
            /\ history' = Append(history, Entry(url, "response", resp))
            /\ ~IsHtml(resp)
            /\ results' = [with_status(results, url, resp) EXCEPT
                             ![url].title = None,
                             ![url].h1_present = Some(FALSE),
                             ![url].h1_contents = Some(<<>>)]
            /\ stats' = record_page(count_response(stats, resp), None, FALSE)
       /\ scanned' = scanned \cup {url}
       /\ queue' = Tail(queue)
       /\ UNCHANGED <<args, canonical, pc, start_url_normalized, inlinks, discovered,
                      robots_disallow, returned, robots_fetch>>

\* lines 263-309: an HTML response, all of whose hrefs normalize_url accepts or rejects
FetchHtml ==
    LET url == Head(queue)
    IN /\ ~is_blocked_by_robots(url, robots_disallow)
       /\ \E resp \in Responses :
            /\ history' = Append(history, Entry(url, "response", resp))
            /\ IsHtml(resp)
            /\ ~SomeRaises(url, resp.hrefs)
            /\ \E c \in {discover_links(
                          LinkState(with_metadata(with_status(results, url, resp), url, resp),
                                    inlinks, discovered, Tail(queue)),
                          url, resp.hrefs)} :
                  /\ results' = c.results
                  /\ inlinks' = c.inlinks
                  /\ discovered' = c.discovered
                  /\ queue' = c.queue
            /\ stats' = record_page(count_response(stats, resp), resp.title, resp.h1_present)
       /\ scanned' = scanned \cup {url}
       /\ UNCHANGED <<args, canonical, pc, start_url_normalized, robots_disallow, returned, robots_fetch>>

\* lines 263-292: an HTML response with an href on which normalize_url raises
\* ValueError, which line 311 does not catch: crawl ends with that exception
FetchHtmlRaises ==
    LET url == Head(queue)
    IN /\ ~is_blocked_by_robots(url, robots_disallow)
       /\ \E resp \in Responses :
            /\ history' = Append(history, Entry(url, "response", resp))
            /\ IsHtml(resp)
            /\ SomeRaises(url, resp.hrefs)
            /\ \E c \in {discover_links(
                          LinkState(with_metadata(with_status(results, url, resp), url, resp),
                                    inlinks, discovered, Tail(queue)),
                          url, BeforeRaise(url, resp.hrefs))} :
                  /\ results' = c.results
                  /\ inlinks' = c.inlinks
                  /\ discovered' = c.discovered
                  /\ queue' = c.queue
            /\ stats' = record_page(count_response(stats, resp), resp.title, resp.h1_present)
       /\ scanned' = scanned \cup {url}
       /\ pc' = "raised"
       /\ UNCHANGED <<args, canonical, start_url_normalized, robots_disallow, returned, robots_fetch>>

\* one iteration of the while loop
Iterate ==
    /\ pc = "loop"
    /\ LoopCondition
    /\ IF Head(queue) \in scanned THEN ContinueScanned
       ELSE \/ RobotsSkip
            \/ FetchError
            \/ FetchOther
            \/ FetchHtml
            \/ FetchHtmlRaises

\* a faulty variant of finalize: the records are returned in the order in
\* which the result map received them (discovery order), not sorted
finalize_insertion_order(res, inl) ==
    LET final == [u \in DOMAIN res |->
                    [res[u] EXCEPT !.linked_from =
                        sorted(IF u \in DOMAIN inl THEN inl[u] ELSE {})]]
        order == [i \in 1..Len(history) |-> history[i].url] \o queue
    IN [i \in 1..Len(order) |-> final[order[i]]]

\* lines 325-330: the loop has ended; backlinks are finalized and the records sorted
finalize(res, inl) ==
    LET final == [u \in DOMAIN res |->
                    [res[u] EXCEPT !.linked_from =
                        sorted(IF u \in DOMAIN inl THEN inl[u] ELSE {})]]
        order == sorted(DOMAIN res)
    IN [i \in 1..Len(order) |-> final[order[i]]]

Finish ==
    /\ pc = "loop"
    /\ ~LoopCondition
    /\ returned' = finalize(results, inlinks)
    /\ pc' = "done"
    /\ UNCHANGED <<args, canonical, start_url_normalized, results, inlinks, discovered, scanned,
                   queue, stats, robots_disallow, robots_fetch, history>>

Next ==
    \/ StartRejected
    \/ Start
    \/ RobotsNotRequested
    \/ LoadRobots
    \/ Iterate
    \/ Finish

Spec == Init /\ [][Next]_vars

(***************************************************************************)
(* The standalone crawl of src/crawler.py.  It has no path_prefix          *)
(* parameter: the start URL is only canonicalized (lines 185-187) and the  *)
(* link loop has no prefix filter (lines 266-277).  The rest of the file   *)
(* (normalize_url, is_local, CrawlStats, the robots functions, the robots  *)
(* skip, the non-HTML branch, the except clause, the finalization) is the  *)
(* text of core.py line for line, so the definitions above stand for it.   *)
(***************************************************************************)
\* the start URL passes the check of lines 185-187
StandaloneStartAccepted ==
    /\ ~normalize_raises(start_url, start_url)
    /\ normalize_url(start_url, start_url) # None

\* crawl raises ValueError before anything else happens
StandaloneStartRejected ==
    /\ pc = "start"
    /\ ~StandaloneStartAccepted
    /\ pc' = "raised"
    /\ UNCHANGED <<args, canonical, start_url_normalized, results, inlinks, discovered, scanned,
                   queue, stats, robots_disallow, returned, robots_fetch, history>>

\* lines 184-205: the crawl state is set up
StandaloneStart ==
    /\ pc = "start"
    /\ StandaloneStartAccepted
    /\ LET s == normalize_url(start_url, start_url)[1]
       IN /\ start_url_normalized' = Some(s)
          /\ results' = (s :> PageResult(s))
          /\ discovered' = {s}
          /\ queue' = <<s>>
    /\ inlinks' = EmptyMap
    /\ scanned' = {}
    /\ stats' = CrawlStats
    /\ pc' = "robots"
    /\ UNCHANGED <<args, canonical, robots_disallow, returned, robots_fetch, history>>

\* lines 267-277: one href of the page at url
standalone_discover_link(c, url, href) ==
    LET target == normalize_url(href, url)
    IN IF target = None \/ ~is_local(target[1], start_origin) THEN c
       ELSE LinkState(SetDefault(c.results, target[1], PageResult(target[1])),
                      AddInlink(c.inlinks, target[1], url),
                      c.discovered \cup {target[1]},
                      IF target[1] \in c.discovered THEN c.queue
                      ELSE Append(c.queue, target[1]))

\* lines 266-277: the hrefs of the page at url, in order
RECURSIVE standalone_discover_links(_, _, _)
standalone_discover_links(c, url, hrefs) ==
    IF hrefs = <<>> THEN c
    ELSE standalone_discover_links(standalone_discover_link(c, url, Head(hrefs)),
                                   url, Tail(hrefs))

\* lines 238-280: an HTML response, all of whose hrefs normalize_url accepts or rejects
StandaloneFetchHtml ==
    LET url == Head(queue)
    IN /\ ~is_blocked_by_robots(url, robots_disallow)
       /\ \E resp \in Responses :
            /\ history' = Append(history, Entry(url, "response", resp))
            /\ IsHtml(resp)
            /\ ~SomeRaises(url, resp.hrefs)
            /\ \E c \in {standalone_discover_links(
                          LinkState(with_metadata(with_status(results, url, resp), url, resp),
                                    inlinks, discovered, Tail(queue)),
                          url, resp.hrefs)} :
                  /\ results' = c.results
                  /\ inlinks' = c.inlinks
                  /\ discovered' = c.discovered
                  /\ queue' = c.queue
            /\ stats' = record_page(count_response(stats, resp), resp.title, resp.h1_present)
       /\ scanned' = scanned \cup {url}
       /\ UNCHANGED <<args, canonical, pc, start_url_normalized, robots_disallow, returned, robots_fetch>>

\* lines 238-267: an HTML response with an href on which normalize_url raises
\* ValueError, which line 282 does not catch: crawl ends with that exception
StandaloneFetchHtmlRaises ==
    LET url == Head(queue)
    IN /\ ~is_blocked_by_robots(url, robots_disallow)
       /\ \E resp \in Responses :
            /\ history' = Append(history, Entry(url, "response", resp))
            /\ IsHtml(resp)
            /\ SomeRaises(url, resp.hrefs)
            /\ \E c \in {standalone_discover_links(
                          LinkState(with_metadata(with_status(results, url, resp), url, resp),
                                    inlinks, discovered, Tail(queue)),
                          url, BeforeRaise(url, resp.hrefs))} :
                  /\ results' = c.results
                  /\ inlinks' = c.inlinks
                  /\ discovered' = c.discovered
                  /\ queue' = c.queue
            /\ stats' = record_page(count_response(stats, resp), resp.title, resp.h1_present)
       /\ scanned' = scanned \cup {url}
       /\ pc' = "raised"
       /\ UNCHANGED <<args, canonical, start_url_normalized, robots_disallow, returned, robots_fetch>>

\* one iteration of the while loop of lines 214-291
StandaloneIterate ==
    /\ pc = "loop"
    /\ LoopCondition
    /\ IF Head(queue) \in scanned THEN ContinueScanned
       ELSE \/ RobotsSkip
            \/ FetchError
            \/ FetchOther
            \/ StandaloneFetchHtml
            \/ StandaloneFetchHtmlRaises

StandaloneNext ==
    \/ StandaloneStartRejected
    \/ StandaloneStart
    \/ RobotsNotRequested
    \/ LoadRobots
    \/ StandaloneIterate
    \/ Finish

\* the two variants side by side, from the same arguments and with the same
\* answers of the network; the packaged crawl is called with path_prefix
\* None or ""
VariantsInit == Init /\ ~PrefixGiven /\ max_pages <= MaxVariantPages

VariantsNext == Next \/ StandaloneNext

VariantsSpec == VariantsInit /\ [][VariantsNext]_vars

(***************************************************************************)
(* normalize_url on its own: the call normalize_url(start_url, start_url)  *)
(* of line 200 for a wider range of URLs, and a second call on its result. *)
(***************************************************************************)
NormalizeSchemes == {"http", "HTTP", "https", "HTTPS", "ftp"}
NormalizeHosts == {"e.com", "E.com", "[::1]"}
NormalizePorts == {"", "80", "443", "8080", "0", "x"}
NormalizePaths == { <<>>, <<"/", "d">>, <<"/", "d", "/", "i", ".", "J", "P", "G">> }
NormalizeQueries == { <<>>, <<"q">>, <<"Q">> }
NormalizeFragments == {"", "f"}

\* the URLs normalize_url is applied to
NormalizeInputs ==
    { Url(scheme, host, port, path, query, frag) :
        scheme \in NormalizeSchemes, host \in NormalizeHosts, port \in NormalizePorts,
        path \in NormalizePaths, query \in NormalizeQueries, frag \in NormalizeFragments }

NormalizeInit ==
    /\ start_url \in NormalizeInputs
    /\ max_pages = 0
    /\ respect_robots = FALSE
    /\ path_prefix = None
    /\ pc = "start"
    /\ start_url_normalized = None
    /\ results = EmptyMap
    /\ inlinks = EmptyMap
    /\ discovered = {}
    /\ scanned = {}
    /\ queue = <<>>
    /\ stats = CrawlStats
    /\ robots_disallow = {}
    /\ returned = <<>>
    /\ robots_fetch = None
    /\ history = <<>>
    /\ canonical = <<>>

\* everything but pc and canonical
crawl_state ==
    <<args, start_url_normalized, results, inlinks, discovered, scanned, queue, stats,
      robots_disallow, returned, robots_fetch, history>>

\* normalize_url(start_url, start_url) returns
NormalizeOnce ==
    /\ pc = "start"
    /\ ~normalize_raises(start_url, start_url)
    /\ canonical' = <<normalize_url(start_url, start_url)>>
    /\ pc' = "once"
    /\ UNCHANGED crawl_state

\* normalize_url(start_url, start_url) raises ValueError
NormalizeOnceRaises ==
    /\ pc = "start"
    /\ normalize_raises(start_url, start_url)
    /\ pc' = "raised"
    /\ UNCHANGED <<crawl_state, canonical>>

\* normalize_url(first, start_url) returns, first being what the first call
\* returned: None comes back as None (line 79), a string is parsed again
NormalizeAgain ==
    /\ pc = "once"
    /\ canonical[1] # None => ~normalize_raises(urlparse(canonical[1][1]), start_url)
    /\ canonical' = Append(canonical,
                           IF canonical[1] = None THEN None
                           ELSE normalize_url(urlparse(canonical[1][1]), start_url))
    /\ pc' = "twice"
    /\ UNCHANGED crawl_state

\* normalize_url(first, start_url) raises ValueError
NormalizeAgainRaises ==
    /\ pc = "once"
    /\ canonical[1] # None
    /\ normalize_raises(urlparse(canonical[1][1]), start_url)
    /\ pc' = "raised"
    /\ UNCHANGED <<crawl_state, canonical>>

NormalizeNext ==
    \/ NormalizeOnce
    \/ NormalizeOnceRaises
    \/ NormalizeAgain
    \/ NormalizeAgainRaises

NormalizeSpec == NormalizeInit /\ [][NormalizeNext]_vars

(***************************************************************************)
(* _load_robots_rules on its own, for every robots.txt of up to            *)
(* MaxRobotsLines lines.                                                   *)
(***************************************************************************)
\* the User-Agent header the crawler sends (the default of --user-agent)
user_agent == "LocalLinkCrawler/1.0"

\* the lines a robots.txt is made of
RobotsLines ==
    { RobotsLine("User-agent", "*", <<>>),
      RobotsLine("user-agent", user_agent, <<>>),
      RobotsLine("Disallow", "", <<"/", "d">>),
      RobotsLine("disallow", "", <<"/", "b">>),
      RobotsLine("Disallow", "", <<>>),
      RobotsLine("Allow", "", <<"/", "d">>),
      RobotsLine("#", "", <<>>),
      RobotsLine("", "", <<>>) }

RobotsTexts == UNION { [1..n -> RobotsLines] : n \in 0..MaxRobotsLines }

\* robots.txt has arrived with status 200 and a text content type
RobotsInit ==
    /\ start_url = Url("http", "e.com", "", <<"/", "d">>, <<>>, "")
    /\ max_pages = 0
    /\ respect_robots = TRUE
    /\ path_prefix = None
    /\ pc = "robots"
    /\ start_url_normalized = Some(start_url)
    /\ results = (start_url :> PageResult(start_url))
    /\ inlinks = EmptyMap
    /\ discovered = {start_url}
    /\ scanned = {}
    /\ queue = <<start_url>>
    /\ stats = CrawlStats
    /\ robots_disallow = {}
    /\ returned = <<>>
    /\ robots_fetch \in { Some(RobotsFetch(FALSE, 200, Some("Text/Plain"), text)) :
                            text \in RobotsTexts }
    /\ history = <<>>
    /\ canonical = <<>>

\* lines 340-363: the rules are read from the response
ReadRobots ==
    /\ pc = "robots"
    /\ robots_fetch # None
    /\ robots_disallow' = load_robots_rules(robots_fetch[1])
    /\ pc' = "loop"
    /\ UNCHANGED <<args, canonical, start_url_normalized, results, inlinks, discovered,
                   scanned, queue, stats, returned, robots_fetch, history>>

RobotsSpec == RobotsInit /\ [][ReadRobots]_vars

(***************************************************************************)
(* Properties.                                                             *)
(***************************************************************************)
Range(seq) == { seq[i] : i \in 1..Len(seq) }

\* the history entries that are fetch attempts, and those that are robots skips
Fetches == { i \in 1..Len(history) : history[i].outcome \in {"error", "response"} }
Skips == { i \in 1..Len(history) : history[i].outcome = "skipped" }

\* C1: every canonical URL is dequeued at most once, gets at most one fetch
\* attempt (no retry after a transport error or an error status), and enters
\* the scanned set at most once: no two entries of the history carry the same
\* URL, and the scanned set is exactly the URLs of the history.
C1_ProcessedAtMostOnce ==
    /\ \A i, j \in 1..Len(history) : history[i].url = history[j].url => i = j
    /\ \A i \in 1..Len(history) : history[i].outcome # "rescanned"
    /\ scanned = { history[i].url : i \in 1..Len(history) }
    /\ Cardinality(scanned) = Len(history)

\* a run in which a fetch failed, and a page fetched later links to a URL
\* processed before it
C1_Witness ==
    /\ pc = "done"
    /\ \E k \in 1..Len(history) : history[k].outcome = "error"
    /\ \E i, j \in 1..Len(history) :
         /\ i < j
         /\ history[j].outcome = "response"
         /\ history[i].url \in DOMAIN inlinks
         /\ history[j].url \in inlinks[history[i].url]

\* C2: the processed-count never exceeds max_pages, and neither does the
\* number of page fetches plus robots skips; with max_pages = 0 nothing is
\* fetched.
C2_WithinMaxPages ==
    /\ stats.pages_crawled <= max_pages
    /\ Cardinality(Fetches) + Cardinality(Skips) <= max_pages
    /\ max_pages = 0 => history = <<>>

\* the limit stops a run whose frontier is not empty
C2_Witness ==
    /\ pc = "done"
    /\ max_pages = 2
    /\ stats.pages_crawled = max_pages
    /\ queue # <<>>

\* C3: the loop always terminates, and it exits exactly when the frontier is
\* empty or the processed-count has reached max_pages: once the loop has been
\* left, one of the two holds.
C3_ExitsWhenFrontierEmptyOrLimit ==
    (start_url_normalized # None /\ pc \in {"done", "raised"})
        => (queue = <<>> \/ stats.pages_crawled >= max_pages)

\* C4: the result map holds exactly one record per discovered URL, in every
\* state between iterations and at the end; the returned list contains every
\* discovered URL exactly once and no other URL.
C4_OneRecordPerDiscovered ==
    /\ DOMAIN results = discovered
    /\ \A u \in DOMAIN results : results[u].url = u
    /\ pc = "done" =>
         /\ { returned[i].url : i \in 1..Len(returned) } = discovered
         /\ Len(returned) = Cardinality(discovered)

\* a finished run that returns three or more records, some of them never processed
C4_Witness ==
    /\ pc = "done"
    /\ Cardinality(discovered) >= 3
    /\ scanned # discovered
    /\ Len(returned) = Cardinality(discovered)

\* the history entries that are HTML responses
HtmlFetched ==
    { k \in 1..Len(history) : history[k].outcome = "response" /\ IsHtml(history[k].resp) }

\* the canonical URLs that an href of the page at url canonicalizes to (against
\* url) and that pass the same-origin and path-prefix filters
TargetsOf(url, hrefs) ==
    { t[1] : t \in { x \in { normalize_url(hrefs[i], url) : i \in 1..Len(hrefs) } :
                       /\ x # None
                       /\ is_local(x[1], start_origin)
                       /\ matches_path_prefix(x[1], path_prefix) } }

\* the pairs <<S, T>>: S was fetched with an HTML response and links to T
LinkPairs ==
    UNION { { <<history[k].url, t>> : t \in TargetsOf(history[k].url, history[k].resp.hrefs) } :
              k \in HtmlFetched }

\* C5: after the run, linked_from of every returned record T is exactly the set
\* of URLs S fetched with an HTML response whose anchor list has an href that
\* canonicalizes against S to T and passes the origin and prefix filters;
\* a single page without links yields one record with linked_from = [].
C5_LinkedFromExact ==
    pc = "done" =>
      /\ \E links \in {LinkPairs} :
           \A i \in 1..Len(returned) :
             \E sources \in { { p[1] : p \in { q \in links : q[2] = returned[i].url } } } :
               /\ Range(returned[i].linked_from) = sources
               /\ Len(returned[i].linked_from) = Cardinality(sources)
      /\ (Len(history) = 1 /\ history[1].outcome = "response" /\ history[1].resp.hrefs = <<>>)
           => (Len(returned) = 1 /\ returned[1].linked_from = <<>>)

\* a fully crawled two-page site where A links to B and B links to A
C5_Witness ==
    /\ pc = "done"
    /\ Len(returned) = 2
    /\ Len(history) = 2
    /\ returned[1].linked_from = <<returned[2].url>>
    /\ returned[2].linked_from = <<returned[1].url>>

\* C6: every URL of the Discovered set, the frontier, the result map and the
\* keys of the backlink map has the scheme and host[:port] of the canonical
\* start URL and, when a path prefix is configured, a path that starts with it.
C6_OriginAndPrefix ==
    \A u \in discovered \cup Range(queue) \cup DOMAIN results \cup DOMAIN inlinks :
      /\ start_url_normalized # None
      /\ u.scheme = start_url_normalized[1].scheme
      /\ u.host = start_url_normalized[1].host
      /\ u.port = start_url_normalized[1].port
      /\ PrefixGiven => StartsWith(u.path, path_prefix[1])

\* under a configured prefix, a page was fetched that links to "/b/p" (same
\* origin, outside the prefix) and to another origin
C6_Witness ==
    /\ pc = "done"
    /\ PrefixGiven
    /\ \E k \in HtmlFetched :
         /\ HrefBlog \in Range(history[k].resp.hrefs)
         /\ HrefOther \in Range(history[k].resp.hrefs)

\* a URL's path starts with one of the collected disallow prefixes
PathDisallowed(u) == \E rule \in robots_disallow : StartsWith(u.path, rule)

\* C7: a URL is robots-blocked iff its path starts with a collected prefix (an
\* empty set blocks nothing); a dequeued URL is skipped iff it is blocked, so a
\* blocked URL is never fetched and an unblocked one never skipped; a skipped
\* URL's record has scanned_at present and status, title, h1_present and
\* h1_contents absent.
C7_RobotsBlocking ==
    /\ \A u \in discovered : is_blocked_by_robots(u, robots_disallow) <=> PathDisallowed(u)
    /\ robots_disallow = {} => Skips = {}
    /\ \A i \in 1..Len(history) :
         /\ history[i].outcome = "skipped" <=> PathDisallowed(history[i].url)
         /\ history[i].outcome = "skipped" =>
              /\ results[history[i].url].scanned_at # None
              /\ results[history[i].url].status_code = None
              /\ results[history[i].url].title = None
              /\ results[history[i].url].h1_present = None
              /\ results[history[i].url].h1_contents = None

\* with rules loaded from robots.txt, one URL was skipped and another fetched
C7_Witness ==
    /\ pc = "done"
    /\ respect_robots
    /\ robots_disallow # {}
    /\ \E i, j \in 1..Len(history) :
         /\ history[i].outcome = "skipped"
         /\ history[j].outcome = "response"

\* the robots.txt fetch raised, returned a status other than 200, or returned
\* a content type without "text"
RobotsFailed ==
    /\ robots_fetch # None
    /\ \/ robots_fetch[1].error
       \/ robots_fetch[1].status_code # 200
       \/ robots_fetch[1].content_type \in {None, Some("application/json")}

\* C8: robots loading fails open: after a failed robots.txt fetch the
\* disallow set is empty, no URL is ever skipped, and the run goes on into
\* the crawl loop.
C8_RobotsFailOpen ==
    RobotsFailed =>
      /\ robots_disallow = {}
      /\ Skips = {}
      /\ history = <<>> => pc \in {"loop", "done"}

\* robots.txt came with status 200 and a non-text content type and a body
\* that disallows everything; the crawl fetched two pages
C8_Witness ==
    /\ pc = "done"
    /\ RobotsFailed
    /\ ~robots_fetch[1].error
    /\ robots_fetch[1].status_code = 200
    /\ robots_fetch[1].lines = DisallowAll
    /\ Cardinality(Fetches) >= 2

ErrorCount(st, key) == IF key \in DOMAIN st.error_counts THEN st.error_counts[key] ELSE 0

\* the step dequeues a URL whose fetch raises a transport error
TransportErrorStep ==
    /\ Len(history') = Len(history) + 1
    /\ history'[Len(history')].outcome = "error"

\* C9: when the fetch of the dequeued URL X raises a transport error, X's
\* record gets scanned_at and has status_code, title, h1_present and
\* h1_contents absent; error_counts["connection_error"] and the
\* processed-count grow by exactly 1; nothing is discovered, the
\* missing-title and missing-heading counters do not change, and the crawl
\* goes on with the rest of the frontier.
C9_TransportError ==
    [][ TransportErrorStep =>
          /\ history'[Len(history')].url = Head(queue)
          /\ results'[Head(queue)].scanned_at # None
          /\ results'[Head(queue)].status_code = None
          /\ results'[Head(queue)].title = None
          /\ results'[Head(queue)].h1_present = None
          /\ results'[Head(queue)].h1_contents = None
          /\ ErrorCount(stats', "connection_error") = ErrorCount(stats, "connection_error") + 1
          /\ \A k \in DOMAIN stats.error_counts :
               k # "connection_error" => stats'.error_counts[k] = stats.error_counts[k]
          /\ DOMAIN stats'.error_counts = DOMAIN stats.error_counts \cup {"connection_error"}
          /\ stats'.pages_crawled = stats.pages_crawled + 1
          /\ stats'.pages_without_title = stats.pages_without_title
          /\ stats'.pages_without_h1 = stats.pages_without_h1
          /\ discovered' = discovered
          /\ inlinks' = inlinks
          /\ DOMAIN results' = DOMAIN results
          /\ queue' = Tail(queue)
          /\ pc' = "loop" ]_vars

\* a fetch failed and the next URL of the frontier was fetched after it
C9_Witness ==
    \E i \in 1..Len(history) :
      /\ i < Len(history)
      /\ history[i].outcome = "error"
      /\ history[i + 1].outcome = "response"

\* C10: a start URL that fails canonicalization or does not match the
\* configured path prefix makes crawl raise before any network access and
\* with no results, and no other error propagates out of crawl: whenever
\* crawl has raised, no request was made and nothing was recorded.
C10_OnlyPreconditionErrorsPropagate ==
    pc = "raised" =>
      /\ robots_fetch = None
      /\ history = <<>>
      /\ results = EmptyMap

\* what became of a URL: the outcome of its history entry, "none" if it was
\* never dequeued
OutcomeOf(u) ==
    IF \E k \in 1..Len(history) : history[k].url = u
    THEN history[CHOOSE k \in 1..Len(history) : history[k].url = u].outcome
    ELSE "none"

\* every fetch-dependent field of a record is absent
AllFetchFieldsAbsent(r) ==
    /\ r.scanned_at = None
    /\ r.status_code = None
    /\ r.title = None
    /\ r.h1_present = None
    /\ r.h1_contents = None

\* C11: in the returned list, scanned_at is absent iff the URL was never
\* processed, and then it is still in the frontier, the limit was hit and
\* every fetch field is absent; scanned_at present with status_code absent
\* iff the URL was robots-skipped or its fetch raised a transport error;
\* status_code present iff a response was received.  With max_pages = 1 and
\* more than one record, exactly one record has scanned_at and all others are
\* placeholders.
C11_FieldPattern ==
    pc = "done" =>
      /\ \A i \in 1..Len(returned) :
           \E o \in {OutcomeOf(returned[i].url)} :
             /\ (returned[i].scanned_at = None) <=> (o = "none")
             /\ o = "none" =>
                  /\ returned[i].url \in Range(queue)
                  /\ stats.pages_crawled >= max_pages
                  /\ AllFetchFieldsAbsent(returned[i])
             /\ (returned[i].scanned_at # None /\ returned[i].status_code = None)
                  <=> (o \in {"skipped", "error"})
             /\ (returned[i].status_code # None) <=> (o = "response")
      /\ (max_pages = 1 /\ Len(returned) > 1) =>
           /\ Cardinality({ i \in 1..Len(returned) : returned[i].scanned_at # None }) = 1
           /\ \A i \in 1..Len(returned) :
                returned[i].scanned_at = None => AllFetchFieldsAbsent(returned[i])

\* a finished run whose records show all three patterns: a response, a
\* transport error or robots skip, and a placeholder left by the limit
C11_Witness ==
    /\ pc = "done"
    /\ \E i, j, k \in 1..Len(returned) :
         /\ returned[i].status_code # None
         /\ returned[j].scanned_at # None /\ returned[j].status_code = None
         /\ returned[k].scanned_at = None

\* the URLs dequeued so far, in order
HistoryUrls == [k \in 1..Len(history) |-> history[k].url]

\* every URL the run has given an identity to
KnownUrls ==
    discovered \cup Range(queue) \cup scanned \cup Range(HistoryUrls)
      \cup DOMAIN results \cup DOMAIN inlinks
      \cup UNION { inlinks[t] : t \in DOMAIN inlinks }

\* the scheme is not http or https, or the lower-cased path ends with a skip
\* extension (the extensions have three to six characters, the dot included)
NotAPage(u) ==
    \/ u.scheme \notin {"http", "https"}
    \/ \E path_lower \in {LowerSeq(u.path)} :
         \E n \in 3..6 :
           /\ n <= Len(path_lower)
           /\ SubSeq(path_lower, Len(path_lower) - n + 1, Len(path_lower)) \in SKIP_EXTENSIONS

\* an href resolved against the page it was found on, fragment dropped,
\* scheme and host lower-cased
Resolved(href, url) ==
    LET parsed == urldefrag(urljoin(url, href))
    IN [parsed EXCEPT !.scheme = Lower(@), !.host = Lower(@)]

\* C14: an href whose resolved scheme is not http or https, or whose resolved
\* lower-cased path ends with a skip extension, canonicalizes to invalid and
\* has no identity in the run: no URL of the frontier, the Discovered set,
\* the result map, the backlink map or the fetch history is such a URL.
C14_InvalidHrefsHaveNoIdentity ==
    [](\E known \in {KnownUrls} :
         /\ \A u \in known : ~NotAPage(u)
         /\ \A k \in HtmlFetched :
              \A h \in Range(BeforeRaise(history[k].url, history[k].resp.hrefs)) :
                \E r \in {Resolved(h, history[k].url)} :
                  NotAPage(r) =>
                    /\ normalize_url(h, history[k].url) = None
                    /\ \A u \in known : u.path # r.path \/ u.scheme # r.scheme)

\* a fetched page carried "/d/i.JPG" and "ftp://e.com/d/a", and the same run
\* discovered "/d/a" over http
C14_Witness ==
    /\ pc = "done"
    /\ \E k \in HtmlFetched :
         /\ HrefImage \in Range(history[k].resp.hrefs)
         /\ HrefFtp \in Range(history[k].resp.hrefs)
    /\ \E u \in discovered : u.path = HrefFtp.path

\* C15: the returned list is strictly ascending by canonical URL, and every
\* record's linked_from is strictly ascending.
C15_SortedOutput ==
    pc = "done" =>
      /\ \A i \in 1..(Len(returned) - 1) : UrlLess(returned[i].url, returned[i + 1].url)
      /\ \A i \in 1..Len(returned) :
           \A j \in 1..(Len(returned[i].linked_from) - 1) :
             UrlLess(returned[i].linked_from[j], returned[i].linked_from[j + 1])

\* three or more records were returned in an order that differs from the
\* order of discovery, and one of them has two backlinks
C15_Witness ==
    /\ pc = "done"
    /\ Len(returned) >= 3
    /\ queue = <<>>
    /\ [i \in 1..Len(returned) |-> returned[i].url] # HistoryUrls
    /\ \E i \in 1..Len(returned) : Len(returned[i].linked_from) >= 2

\* the targets a page adds to the order of discovery: those of its hrefs, in
\* order, that canonicalize, pass the filters and were not discovered before
RECURSIVE AppendTargets(_, _, _)
AppendTargets(order, url, hrefs) ==
    IF hrefs = <<>> THEN order
    ELSE LET t == normalize_url(Head(hrefs), url)
         IN IF /\ t # None
               /\ is_local(t[1], start_origin)
               /\ matches_path_prefix(t[1], path_prefix)
               /\ t[1] \notin Range(order)
            THEN AppendTargets(Append(order, t[1]), url, Tail(hrefs))
            ELSE AppendTargets(order, url, Tail(hrefs))

\* the order of discovery, computed from the pages fetched so far: the start
\* URL, then for each of the first k dequeued URLs that was fetched as HTML
\* the targets its anchor list adds
RECURSIVE DiscoveryOrder(_)
DiscoveryOrder(k) ==
    IF k = 0 THEN <<start_url_normalized[1]>>
    ELSE IF history[k].outcome = "response" /\ IsHtml(history[k].resp)
         THEN AppendTargets(DiscoveryOrder(k - 1), history[k].url,
                            BeforeRaise(history[k].url, history[k].resp.hrefs))
         ELSE DiscoveryOrder(k - 1)

\* the URLs within n links of the start URL, over the recorded backlink edges
RECURSIVE Within(_)
Within(n) ==
    IF n = 0 THEN {start_url_normalized[1]}
    ELSE LET near == Within(n - 1)
         IN near \cup { t \in DOMAIN inlinks : inlinks[t] \cap near # {} }

\* Within(0), Within(1), ...: every discovered URL is within as many links
\* as pages have been processed
Levels == [n \in 0..Len(history) |-> Within(n)]

\* the link-distance of a discovered URL from the start URL: the number of
\* levels that do not contain it
DistanceIn(levels, u) == Cardinality({ n \in DOMAIN levels : u \notin levels[n] })

Distance(u) == DistanceIn(Levels, u)

\* C16: the URLs dequeued so far followed by the frontier are exactly the
\* order of first discovery (start URL first, targets of one page in the
\* order of their first appearance in its anchor list), so the dequeue
\* sequence is a prefix of the discovery sequence; and no URL is processed
\* before a discovered URL of smaller link-distance.
C16_FifoOrder ==
    [](start_url_normalized # None =>
         /\ HistoryUrls \o queue = DiscoveryOrder(Len(history))
         /\ \E levels \in {Levels} :
              \E dist \in {[u \in discovered |-> DistanceIn(levels, u)]} :
                /\ \A u \in discovered : dist[u] <= Len(history)
                /\ \A i \in 1..Len(history) :
                     \A u \in discovered :
                       dist[u] < dist[history[i].url] =>
                         \E j \in 1..(i - 1) : history[j].url = u)

\* the start page discovered two targets; the first was fetched and added a
\* URL at distance 2; then the second target (distance 1) was dequeued before it
C16_Witness ==
    /\ pc = "loop"
    /\ Len(history) = 3
    /\ queue # <<>>
    /\ Len(DiscoveryOrder(1)) >= 3
    /\ history[2].url = DiscoveryOrder(1)[2]
    /\ history[3].url = DiscoveryOrder(1)[3]
    /\ Distance(history[3].url) = 1
    /\ Distance(Head(queue)) = 2

\* C17: the frontier contains no URL twice, the frontier and the scanned set
\* are disjoint, the Discovered set is the union of the frontier's contents
\* and the scanned set, and the dequeued URL is never already scanned.
C17_FrontierVisitedConsistency ==
    /\ \A i, j \in 1..Len(queue) : queue[i] = queue[j] => i = j
    /\ Range(queue) \cap scanned = {}
    /\ discovered = Range(queue) \cup scanned
    /\ (pc = "loop" /\ queue # <<>>) => Head(queue) \notin scanned
    /\ \A k \in 1..Len(history) : history[k].outcome # "rescanned"

\* between two iterations: a page fetched second or later links both to a
\* URL scanned before it and to a URL that was already waiting in the frontier
C17_Witness ==
    /\ pc = "loop"
    /\ Len(queue) >= 1
    /\ \E k \in HtmlFetched :
         /\ k >= 2
         /\ \E t \in {TargetsOf(history[k].url, history[k].resp.hrefs)} :
              /\ \E i \in 1..(k - 1) : history[i].url \in t
              /\ t \cap Range(queue) \cap Range(DiscoveryOrder(k - 1)) # {}

\* the fetch-dependent fields of a record
FetchFields(r) == <<r.scanned_at, r.status_code, r.title, r.h1_present, r.h1_contents>>

\* C18: a record is created as a placeholder with all fetch fields absent and
\* keeps them absent until its URL is dequeued; its fetch fields change only
\* in the iteration that dequeues its URL and puts it into the scanned set;
\* no record is ever deleted; once a URL is scanned its fetch fields never
\* change again.
C18_RecordLifecycle ==
    [][ /\ DOMAIN results \subseteq DOMAIN results'
        /\ \A u \in DOMAIN results' \ DOMAIN results : results'[u] = PageResult(u)
        /\ \A u \in DOMAIN results :
             /\ u \notin scanned => AllFetchFieldsAbsent(results[u])
             /\ u \in scanned => FetchFields(results'[u]) = FetchFields(results[u])
             /\ FetchFields(results'[u]) # FetchFields(results[u]) =>
                  /\ queue # <<>>
                  /\ u = Head(queue)
                  /\ u \in scanned' \ scanned
        /\ \A u \in scanned' \ scanned :
             /\ queue # <<>>
             /\ u = Head(queue)
             /\ results'[u].scanned_at # None ]_vars

\* a page fetched with a response is linked to by a page processed after it
C18_Witness ==
    /\ pc = "done"
    /\ \E i, j \in HtmlFetched :
         /\ i < j
         /\ history[i].url \in TargetsOf(history[j].url, history[j].resp.hrefs)
         /\ results[history[i].url].title # None

\* the step dequeues a URL that robots.txt blocks
RobotsSkipStep ==
    /\ Len(history') = Len(history) + 1
    /\ history'[Len(history')].outcome = "skipped"

\* C19: a robots skip of the dequeued URL increments the processed-count by
\* exactly 1 and adds the URL to the scanned set, and leaves error_counts,
\* the missing-title and missing-heading counters, the Discovered set, the
\* rest of the frontier and the backlink map unchanged.
C19_RobotsSkipFrame ==
    [][ RobotsSkipStep =>
          /\ history'[Len(history')].url = Head(queue)
          /\ stats'.pages_crawled = stats.pages_crawled + 1
          /\ scanned' = scanned \cup {Head(queue)}
          /\ Head(queue) \notin scanned
          /\ stats'.error_counts = stats.error_counts
          /\ stats'.pages_without_title = stats.pages_without_title
          /\ stats'.pages_without_h1 = stats.pages_without_h1
          /\ discovered' = discovered
          /\ queue' = Tail(queue)
          /\ inlinks' = inlinks ]_vars

\* a URL was skipped after an error status had been counted and backlinks
\* recorded, with other URLs still waiting in the frontier
C19_Witness ==
    /\ Len(history) >= 2
    /\ history[Len(history)].outcome = "skipped"
    /\ queue # <<>>
    /\ inlinks # EmptyMap
    /\ stats.error_counts # EmptyMap
    /\ stats.pages_crawled = Len(history)

\* C12: canonicalization is idempotent: once normalize_url(u, u) has
\* returned, normalize_url of its result (with u as base) returns the same,
\* also when the first result is invalid.
C12_Idempotent ==
    /\ pc = "twice" => canonical[2] = canonical[1]
    /\ ~(pc = "raised" /\ Len(canonical) = 1)

\* the spellings of a scheme and of a host that differ in letter case only
SchemeCases(scheme) ==
    { x \in NormalizeSchemes : Lower(x) = Lower(scheme) }
HostCases(host) ==
    { x \in NormalizeHosts : Lower(x) = Lower(host) }

\* the default port of a scheme, as it is written
DefaultPort(scheme) ==
    CASE Lower(scheme) = "http" -> "80" [] Lower(scheme) = "https" -> "443" [] OTHER -> ""

\* the port left out, or written as the scheme's default
PortSpellings(scheme, port) ==
    IF port \in {"", DefaultPort(scheme)} THEN {"", DefaultPort(scheme)} ELSE {port}

\* the URLs that differ from url only in the letter case of scheme or host,
\* in the presence of the default port, or in the fragment
Equivalents(url) ==
    { Url(scheme, host, port, url.path, url.query, frag) :
        scheme \in SchemeCases(url.scheme), host \in HostCases(url.host),
        port \in PortSpellings(url.scheme, url.port), frag \in NormalizeFragments }

\* C13: URLs that differ only in the letter case of scheme or host, in the
\* presence of the scheme's default port, or in their fragment canonicalize
\* identically and without a fragment; a non-default port is kept as
\* host:port; URLs that differ in their query canonicalize differently, the
\* query being kept unchanged.
C13_CanonicalEquivalence ==
    (pc = "once" /\ canonical[1] # None) =>
      /\ \A v \in Equivalents(start_url) : normalize_url(v, v) = canonical[1]
      /\ canonical[1][1].frag = ""
      /\ (start_url.port \in PortDigits /\ start_url.port # DefaultPort(start_url.scheme))
           => canonical[1][1].port = start_url.port
      /\ canonical[1][1].query = start_url.query
      /\ \A q \in NormalizeQueries \ {start_url.query} :
           normalize_url([start_url EXCEPT !.query = q], [start_url EXCEPT !.query = q])
             # canonical[1]

\* line i of a robots.txt is a user-agent line, a disallow line
IsUserAgentLine(line) == Lower(line.field) = "user-agent"
IsDisallowLine(line) == Lower(line.field) = "disallow"

\* the flag when line i is read: there is a user-agent line before it, and the
\* nearest one names "*"
FlagAt(lines, i) ==
    \E j \in 1..(i - 1) :
      /\ IsUserAgentLine(lines[j])
      /\ lines[j].agent = "*"
      /\ \A m \in (j + 1)..(i - 1) : ~IsUserAgentLine(lines[m])

\* C20: the rules read from a robots.txt are exactly the non-empty values of
\* the disallow lines whose nearest preceding user-agent line names "*" (the
\* flag starts false, a user-agent line sets it to whether its value is "*",
\* a disallow line adds its non-empty value while the flag is true); disallow
\* lines before any user-agent line or under another agent, the crawler's
\* own user-agent included, add nothing.
C20_RobotsParsing ==
    (pc = "loop" /\ robots_fetch # None) =>
      \E lines \in {robots_fetch[1].lines} :
        /\ robots_disallow =
             { lines[i].path : i \in { k \in 1..Len(lines) :
                                         /\ IsDisallowLine(lines[k])
                                         /\ lines[k].path # <<>>
                                         /\ FlagAt(lines, k) } }
        /\ \A i \in 1..Len(lines) :
             (IsDisallowLine(lines[i]) /\ \A j \in 1..(i - 1) : ~IsUserAgentLine(lines[j]))
               => (lines[i].path \in robots_disallow
                     => \E k \in (i + 1)..Len(lines) : lines[k].path = lines[i].path)
        /\ \A i \in 1..(Len(lines) - 1) :
             (/\ IsUserAgentLine(lines[i]) /\ lines[i].agent = user_agent
              /\ IsDisallowLine(lines[i + 1]) /\ lines[i + 1].path \in robots_disallow)
               => \E k \in 1..Len(lines) : k # i + 1 /\ lines[k].path = lines[i + 1].path

\* "User-agent: *", "Disallow: /d", then a group for the crawler's own
\* user-agent whose disallow line adds nothing
C20_Witness ==
    /\ pc = "loop"
    /\ robots_fetch # None
    /\ robots_fetch[1].lines =
         << RobotsLine("User-agent", "*", <<>>),
            RobotsLine("Disallow", "", <<"/", "d">>),
            RobotsLine("user-agent", user_agent, <<>>),
            RobotsLine("disallow", "", <<"/", "b">>) >>
    /\ robots_disallow = { <<"/", "d">> }


\* the step dequeues a URL whose fetch returns a response
ResponseStep ==
    /\ Len(history') = Len(history) + 1
    /\ history'[Len(history')].outcome = "response"

\* the keys of error_counts other than key are the same, with the same counts
OtherErrorCountsKept(key) ==
    /\ DOMAIN stats'.error_counts = DOMAIN stats.error_counts \cup {key}
    /\ \A k \in DOMAIN stats.error_counts \ {key} :
         stats'.error_counts[k] = stats.error_counts[k]

\* C21: a response with status >= 400 does not end the run: its status is
\* stored in the record, error_counts[str(status)] grows by exactly 1 and no
\* other error counter changes, and if the content-type is HTML the links of
\* the page are discovered and enqueued by the same rule as for any other
\* status; a response with status < 400 changes no error counter; every key
\* of error_counts is "connection_error" after a transport error or the
\* decimal string of a status >= 400 that a response had.
C21_ErrorStatus ==
    /\ [](\A key \in DOMAIN stats.error_counts :
            \/ /\ key = "connection_error"
               /\ \E k \in 1..Len(history) : history[k].outcome = "error"
            \/ \E k \in 1..Len(history) :
                 /\ history[k].outcome = "response"
                 /\ history[k].resp.status_code >= 400
                 /\ key = StatusStr(history[k].resp.status_code))
    /\ [][ ResponseStep =>
             \E url \in {history'[Len(history')].url} :
             \E resp \in {history'[Len(history')].resp} :
                /\ url = Head(queue)
                /\ results'[url].status_code = Some(resp.status_code)
                /\ resp.status_code >= 400 =>
                     /\ ErrorCount(stats', StatusStr(resp.status_code))
                          = ErrorCount(stats, StatusStr(resp.status_code)) + 1
                     /\ OtherErrorCountsKept(StatusStr(resp.status_code))
                     /\ pc' \in {"loop", "raised"}
                /\ resp.status_code < 400 => stats'.error_counts = stats.error_counts
                /\ IsHtml(resp) =>
                     \E hrefs \in {BeforeRaise(url, resp.hrefs)} :
                     \E targets \in {TargetsOf(url, hrefs)} :
                       /\ HistoryUrls' \o queue'
                            = AppendTargets(HistoryUrls \o queue, url, hrefs)
                       /\ discovered' = discovered \cup targets
                       /\ \A t \in targets : url \in inlinks'[t]
                       /\ hrefs = resp.hrefs => pc' = "loop" ]_vars

\* an HTML page answered with status 404 was counted, and a URL that only its
\* links discovered was fetched afterwards
C21_Witness ==
    /\ ErrorCount(stats, "404") >= 1
    /\ \E k \in HtmlFetched :
         /\ history[k].resp.status_code = 404
         /\ \E j \in (k + 1)..Len(history) :
              /\ history[j].outcome = "response"
              /\ history[j].resp.status_code = 200
              /\ history[j].url \in TargetsOf(history[k].url,
                                              BeforeRaise(history[k].url, history[k].resp.hrefs))
              /\ history[j].url \notin Range(DiscoveryOrder(k - 1))

\* the content-type of the response is absent or names no HTML
NotHtmlResponse(resp) == resp.content_type \in {None, Some("application/json")}

\* C22: when the fetch of the dequeued URL returns a response whose
\* content-type is not HTML, the record gets the status code, title absent,
\* h1_present false and h1_contents empty, and the Discovered set, the rest
\* of the frontier, the backlink map and the set of records do not change,
\* whatever hrefs the body has.
C22_NonHtmlFrame ==
    [][ (ResponseStep /\ NotHtmlResponse(history'[Len(history')].resp)) =>
          LET url == history'[Len(history')].url
              resp == history'[Len(history')].resp
          IN /\ url = Head(queue)
             /\ results'[url].status_code = Some(resp.status_code)
             /\ results'[url].title = None
             /\ results'[url].h1_present = Some(FALSE)
             /\ results'[url].h1_contents = Some(<<>>)
             /\ discovered' = discovered
             /\ queue' = Tail(queue)
             /\ inlinks' = inlinks
             /\ DOMAIN results' = DOMAIN results
             /\ \A u \in DOMAIN results \ {url} : results'[u] = results[u] ]_vars

\* the run ended after a page that is not HTML was fetched, and a URL its
\* body links to, which passes the filters, was never discovered
C22_Witness ==
    /\ pc = "done"
    /\ \E k \in 1..Len(history) :
         /\ history[k].outcome = "response"
         /\ NotHtmlResponse(history[k].resp)
         /\ history[k].resp.hrefs # <<>>
         /\ TargetsOf(history[k].url, history[k].resp.hrefs) # {}
         /\ TargetsOf(history[k].url, history[k].resp.hrefs) \cap discovered = {}


\* C23 as stated: the missing-title and missing-heading counters change only
\* in a step that processes an HTML response; processing a response whose
\* content-type is not HTML leaves both unchanged.
C23_OnlyHtmlBranchCounts ==
    [][ (\/ stats'.pages_without_title # stats.pages_without_title
         \/ stats'.pages_without_h1 # stats.pages_without_h1)
          => (ResponseStep /\ ~NotHtmlResponse(history'[Len(history')].resp)) ]_vars

\* C23 as the code has it: the missing-title and missing-heading counters
\* change only in a step that processes a response; for an HTML response
\* the Extractor's findings decide (missing or empty title: +1, no h1: +1);
\* for a response whose content-type is not HTML both counters grow by
\* exactly 1, whatever the body holds.
C23_MissingCounters ==
    [][ /\ ~ResponseStep =>
             /\ stats'.pages_without_title = stats.pages_without_title
             /\ stats'.pages_without_h1 = stats.pages_without_h1
        /\ ResponseStep =>
             \E resp \in {history'[Len(history')].resp} :
               IF NotHtmlResponse(resp)
               THEN /\ stats'.pages_without_title = stats.pages_without_title + 1
                    /\ stats'.pages_without_h1 = stats.pages_without_h1 + 1
               ELSE /\ stats'.pages_without_title = stats.pages_without_title
                         + (IF resp.title \in {None, Some("")} THEN 1 ELSE 0)
                    /\ stats'.pages_without_h1 = stats.pages_without_h1
                         + (IF resp.h1_present THEN 0 ELSE 1) ]_vars

\* the run ended; the only page counted as lacking a title and an h1 is one
\* that is not HTML, and an HTML page with both was fetched as well
C23_Witness ==
    /\ pc = "done"
    /\ stats.pages_without_title = 1
    /\ stats.pages_without_h1 = 1
    /\ \E k \in 1..Len(history) :
         /\ history[k].outcome = "response"
         /\ NotHtmlResponse(history[k].resp)
         /\ history[k].resp.title # None
    /\ \E k \in HtmlFetched : history[k].resp.title # None /\ history[k].resp.h1_present
    /\ \A k \in HtmlFetched : history[k].resp.title # None /\ history[k].resp.h1_present


\* the sum of the values of a map of counters
RECURSIVE SumCounts(_)
SumCounts(counts) ==
    IF DOMAIN counts = {} THEN 0
    ELSE LET k == CHOOSE x \in DOMAIN counts : TRUE
         IN counts[k] + SumCounts([x \in DOMAIN counts \ {k} |-> counts[x]])

\* C24: in every state pages_crawled is the size of the scanned set,
\* pages_without_title <= pages_crawled, pages_without_h1 <= pages_crawled
\* and the sum of the error_counts values <= pages_crawled; every step that
\* adds a URL to the scanned set adds exactly one and raises pages_crawled
\* by exactly 1, whether the URL was fetched, failed or was skipped; no
\* counter ever decreases and no error key disappears.
C24_StatsConsistency ==
    /\ [](/\ stats.pages_crawled = Cardinality(scanned)
          /\ stats.pages_without_title <= stats.pages_crawled
          /\ stats.pages_without_h1 <= stats.pages_crawled
          /\ SumCounts(stats.error_counts) <= stats.pages_crawled)
    /\ [][ /\ scanned \subseteq scanned'
           /\ Cardinality(scanned' \ scanned) <= 1
           /\ stats'.pages_crawled = stats.pages_crawled + Cardinality(scanned' \ scanned)
           /\ stats'.pages_without_title >= stats.pages_without_title
           /\ stats'.pages_without_h1 >= stats.pages_without_h1
           /\ \A k \in DOMAIN stats.error_counts :
                /\ k \in DOMAIN stats'.error_counts
                /\ stats'.error_counts[k] >= stats.error_counts[k] ]_vars

\* three URLs were processed, one with a response of status 404, one with a
\* transport failure and one by a robots skip
C24_Witness ==
    /\ pc = "done"
    /\ stats.pages_crawled = 3
    /\ { history[k].outcome : k \in 1..Len(history) } = {"response", "error", "skipped"}
    /\ SumCounts(stats.error_counts) = 2
    /\ stats.pages_without_title = 1


\* every URL that is a source in some backlink set
BacklinkSources == UNION { inlinks[t] : t \in DOMAIN inlinks }

\* C25: in every state, every source in a backlink set is in the scanned set,
\* its record has a status code, and it was fetched with an HTML response;
\* every target key of the backlink map is in the Discovered set; a URL that
\* was skipped for robots.txt, whose fetch failed or that waits in the
\* frontier is a source of nothing, in the backlink map and in every
\* linked_from of the returned records.
C25_BacklinkSources ==
    \E sources \in {BacklinkSources} :
      /\ \A s \in sources :
           /\ s \in scanned
           /\ results[s].status_code # None
           /\ \E k \in HtmlFetched : history[k].url = s
      /\ DOMAIN inlinks \subseteq discovered
      /\ \A k \in 1..Len(history) :
           history[k].outcome \in {"skipped", "error"} => history[k].url \notin sources
      /\ Range(queue) \cap sources = {}
      /\ pc = "done" =>
           \A i \in 1..Len(returned) :
             /\ Range(returned[i].linked_from) \subseteq sources
             /\ returned[i].status_code = None =>
                  \A j \in 1..Len(returned) :
                    returned[i].url \notin Range(returned[j].linked_from)

\* the run ended with a robots-skipped URL and a URL whose fetch failed, each
\* of them linked to by a page that was fetched with an error status
C25_Witness ==
    /\ pc = "done"
    /\ \E a, b \in 1..Len(history) :
         /\ history[a].outcome = "skipped"
         /\ history[b].outcome = "error"
         /\ history[a].url \in DOMAIN inlinks
         /\ history[b].url \in DOMAIN inlinks
    /\ \E s \in BacklinkSources : results[s].status_code = Some(404)


\* the URLs that the links of the k-th dequeued page lead to: the targets of
\* those of its hrefs that have a canonical form, if it was fetched as HTML
LinksOf(k) ==
    IF k \in HtmlFetched
    THEN TargetsOf(history[k].url,
                   SelectSeq(history[k].resp.hrefs,
                             LAMBDA h : ~normalize_raises(h, history[k].url)))
    ELSE {}

\* the URLs within n filter-passing links of the start URL, following links
\* out of pages that returned an HTML response
RECURSIVE ReachableWithin(_)
ReachableWithin(n) ==
    IF n = 0 THEN {start_url_normalized[1]}
    ELSE LET near == ReachableWithin(n - 1)
         IN near \cup UNION { LinksOf(k) : k \in { i \in 1..Len(history) : history[i].url \in near } }

Reachable == ReachableWithin(Len(history) + 1)

\* C26: when the loop has ended with pages_crawled < max_pages, the frontier
\* is empty, the scanned set equals the Discovered set, every returned record
\* has scanned_at present, and the Discovered set is exactly the set of URLs
\* reachable from the start URL by filter-passing links out of pages that
\* returned an HTML response.
C26_CompleteBelowLimit ==
    (/\ pc \in {"done", "raised"}
     /\ start_url_normalized # None
     /\ stats.pages_crawled < max_pages) =>
       /\ queue = <<>>
       /\ scanned = discovered
       /\ \A i \in 1..Len(returned) : returned[i].scanned_at # None
       /\ discovered = Reachable

\* the same for a run whose loop ends by its condition and that returns
C26_NormalEnd ==
    (/\ pc = "done"
     /\ stats.pages_crawled < max_pages) =>
       /\ queue = <<>>
       /\ scanned = discovered
       /\ Len(returned) = Cardinality(discovered)
       /\ \A i \in 1..Len(returned) : returned[i].scanned_at # None
       /\ discovered = Reachable


\* C27: from the same start URL, max_pages and robots setting and with the
\* same answers of the network, every step of the packaged crawl called
\* with path_prefix None or "" is a step of the standalone crawl and every
\* step of the standalone crawl is a step of the packaged one: the two
\* dequeue and fetch the same URLs in the same order and end with the same
\* records and statistics, or with the same exception.
C27_VariantsAgree == [][Next /\ StandaloneNext]_vars

\* a crawl with the empty string as path_prefix returned the records of
\* pages under different paths, one of them found through a page with an
\* error status
C27_Witness ==
    /\ pc = "done"
    /\ path_prefix = Some(<<>>)
    /\ Len(returned) >= 3
    /\ { <<"/", "d", "/", "a">>, <<"/", "b", "/", "p">> }
         \subseteq { returned[i].url.path : i \in 1..Len(returned) }
    /\ ErrorCount(stats, "404") >= 1

====
